---- MODULE Spec2Model ----
(***************************************************************************)
(* The OPFS picker (src/js/components/opfs-picker.js): a three-column      *)
(* browser over a directory-tree snapshot built by dirtree (src/js/opfs.js)*)
(*                                                                         *)
(* Strings are sequences of one-character strings, so that normalize,      *)
(* split, join, trim and lastIndexOf are computed character by character.  *)
(* The value null is the one-element sequence Null.                        *)
(*                                                                         *)
(* Not modelled, because no handler reads them: the "selected" CSS class   *)
(* of the rows (click handler, highlightPath and the zero-delay timers     *)
(* that call it), the breadcrumb separators, and this.pathParts (written   *)
(* by navigateFromBreadcrumb only).                                        *)
(***************************************************************************)
EXTENDS Integers, Sequences, FiniteSets, TLC

VARIABLES
    hidden,        \* the host element carries style="display:none" (closeBtn)
    loadSeq,       \* number of connectedCallback runs (render + loadTree) so far
    pending,       \* the loadTree() calls awaiting dirtree, by their number
    fullTree,      \* this.fullTree
    selectedPath,  \* this.selectedPath
    history,       \* this.history
    historyIndex,  \* this.historyIndex (0-based, -1 when nothing was pushed)
    col1, col2, col3,  \* the items bound to the rows of #col1, #col2, #col3
    breadcrumb,    \* the segments of #breadcrumb: [label, path, active]
    signal,        \* the CustomEvent dispatched by the latest handler
    last,          \* the latest handler that ran and its argument; dropped is
                   \* the number of forward entries its pushHistory discarded
    probe          \* a method called on its own, outside any handler: its
                   \* argument and the results so far (NoProbe in Spec)

vars == <<hidden, loadSeq, pending, fullTree, selectedPath,
          history, historyIndex, col1, col2, col3, breadcrumb, signal, last, probe>>

-----------------------------------------------------------------------------
(* Bounds *)

MaxHist == 2     \* a handler may push only while historyIndex + 1 < MaxHist
MaxLoads == 2    \* connectedCallback runs at most this many times
MaxLen == 5      \* the strings normalize is called on have at most this length

-----------------------------------------------------------------------------
(* Strings *)

Null == <<"null">>
Root == <<"/">>
Blank == " "

\* String.prototype.startsWith("/")
startsWithSlash(s) == Len(s) > 0 /\ s[1] = "/"

\* String.prototype.endsWith("/")
endsWithSlash(s) == Len(s) > 0 /\ s[Len(s)] = "/"

\* String.prototype.lastIndexOf("/"), 0-based, -1 when absent
RECURSIVE lastIndexOfFrom(_, _)
lastIndexOfFrom(s, n) ==
    IF n = 0 THEN -1
    ELSE IF s[n] = "/" THEN n - 1
    ELSE lastIndexOfFrom(s, n - 1)

lastIndexOfSlash(s) == lastIndexOfFrom(s, Len(s))

\* String.prototype.split("/"): the pieces between slashes, empty ones kept
RECURSIVE splitFrom(_, _, _)
splitFrom(s, i, cur) ==
    IF i > Len(s) THEN <<cur>>
    ELSE IF s[i] = "/" THEN <<cur>> \o splitFrom(s, i + 1, <<>>)
    ELSE splitFrom(s, i + 1, Append(cur, s[i]))

split(s) == splitFrom(s, 1, <<>>)

\* Array.prototype.filter(Boolean) on strings: drop the empty ones
filterBoolean(xs) == SelectSeq(xs, LAMBDA x : x # <<>>)

\* path.split("/").filter(Boolean)
segments(s) == filterBoolean(split(s))

\* Array.prototype.join("/")
RECURSIVE join(_)
join(xs) ==
    IF xs = <<>> THEN <<>>
    ELSE IF Len(xs) = 1 THEN xs[1]
    ELSE xs[1] \o <<"/">> \o join(Tail(xs))

\* Array.prototype.slice(-3)
sliceLast3(xs) == SubSeq(xs, Len(xs) - 2, Len(xs))

\* Array.prototype.slice(0, n)
sliceTo(xs, n) == SubSeq(xs, 1, IF n < Len(xs) THEN n ELSE Len(xs))

\* String.prototype.trim(), with the blank as the only whitespace
RECURSIVE trimStart(_)
trimStart(s) ==
    IF s # <<>> /\ s[1] = Blank THEN trimStart(Tail(s)) ELSE s

RECURSIVE trimEnd(_)
trimEnd(s) ==
    IF s # <<>> /\ s[Len(s)] = Blank THEN trimEnd(SubSeq(s, 1, Len(s) - 1)) ELSE s

trim(s) == trimEnd(trimStart(s))

\* JavaScript truthiness of a string-or-null
truthy(s) == s # Null /\ s # <<>>

-----------------------------------------------------------------------------
(* Basic helpers of the picker *)

normalize(path) ==
    IF ~truthy(path) THEN Root
    ELSE LET p1 == IF ~startsWithSlash(path) THEN <<"/">> \o path ELSE path
             p2 == IF Len(p1) > 1 /\ endsWithSlash(p1)
                   THEN SubSeq(p1, 1, Len(p1) - 1) ELSE p1
         IN  p2

parentOf(path) ==
    LET p   == normalize(path)
        idx == lastIndexOfSlash(p)
    IN  IF p = Root THEN Null
        ELSE IF idx = 0 THEN Root
        ELSE SubSeq(p, 1, idx)

\* x || "/"
orRoot(x) == IF truthy(x) THEN x ELSE Root

-----------------------------------------------------------------------------
(* The storage backend and the snapshot dirtree builds from it *)

FileH == [kind |-> "file"]
DirH(entries) == [kind |-> "directory", entries |-> entries]
Entry(name, handle) == [name |-> name, handle |-> handle]

\* /a/{b/{c/{d/{e}}}, f}
Disk1 ==
    DirH(<< Entry(<<"a">>, DirH(<<
              Entry(<<"b">>, DirH(<<
                 Entry(<<"c">>, DirH(<<
                    Entry(<<"d">>, DirH(<< Entry(<<"e">>, FileH) >>)) >>)) >>)),
              Entry(<<"f">>, FileH) >>)) >>)

\* /{g, a/{}}: b and f were deleted, a is empty, g is new
Disk2 ==
    DirH(<< Entry(<<"g">>, FileH), Entry(<<"a">>, DirH(<<>>)) >>)

\* the storage as the n-th load finds it: Disk1 first, Disk2 after the
\* deletions, then alternating
DiskAt(n) == IF n % 2 = 1 THEN Disk1 ELSE Disk2

RECURSIVE walk(_, _, _)
walk(dirHandle, name, currentPath) ==
    LET childpath(childName) ==
            IF currentPath = Root THEN <<"/">> \o childName
            ELSE currentPath \o <<"/">> \o childName
        child(e) ==
            IF e.handle.kind = "file"
            THEN [name |-> e.name, type |-> "file", path |-> childpath(e.name)]
            ELSE walk(e.handle, e.name, childpath(e.name))
    IN  [name |-> name, type |-> "directory", path |-> currentPath,
         children |-> [i \in 1..Len(dirHandle.entries) |-> child(dirHandle.entries[i])]]

\* dirtree("/"), the only call the picker makes
dirtree(storage) == walk(storage, <<>>, Root)

\* this.fullTree = {} of the constructor: an object without children
EmptyObj == [unloaded |-> TRUE]

\* the null a lookup returns
NoNode == [type |-> "null"]

\* node.children || []  and  node?.children || []  for a node that is not null
childrenOrEmpty(node) ==
    IF "children" \in DOMAIN node THEN node.children ELSE <<>>

\* what a row keeps of its item: textContent, class and dataset.path
Item(n) == [name |-> n.name, type |-> n.type, path |-> n.path]

-----------------------------------------------------------------------------
(* The picker's methods, as functions of the object's state s.  s.threw    *)
(* records a TypeError (a property read on null): the statements after it  *)
(* do not run.                                                             *)

\* cur.children.find(c => c.name === p)
findChild(cur, p) ==
    LET ch == cur.children
        hits == {i \in 1..Len(ch) : ch[i].name = p}
    IN  IF hits = {} THEN NoNode
        ELSE ch[CHOOSE i \in hits : \A j \in hits : i <= j]

RECURSIVE descend(_, _)
descend(cur, parts) ==
    IF parts = <<>> THEN cur
    ELSE IF "children" \notin DOMAIN cur THEN NoNode
    ELSE LET nxt == findChild(cur, Head(parts))
         IN  IF nxt = NoNode THEN NoNode ELSE descend(nxt, Tail(parts))

findNode(s, path0) ==
    LET path == normalize(path0)
    IN  IF path = Root THEN s.fullTree
        ELSE descend(s.fullTree, segments(path))

\* pushHistory without the slice: the forward entries survive a push
pushHistory_noTruncate(s, path) ==
    LET h2 == Append(s.history, path)
    IN  [s EXCEPT !.history = h2, !.historyIndex = Len(h2) - 1]

pushHistory(s, path) ==
    LET h == IF s.historyIndex < Len(s.history) - 1
             THEN SubSeq(s.history, 1, s.historyIndex + 1)
             ELSE s.history
        h2 == Append(h, path)
    IN  [s EXCEPT !.history = h2, !.historyIndex = Len(h2) - 1]

renderColumn(s, colId, items) ==
    LET rows == [i \in 1..Len(items) |-> Item(items[i])]
    IN  CASE colId = "col1" -> [s EXCEPT !.col1 = rows]
          [] colId = "col2" -> [s EXCEPT !.col2 = rows]
          [] colId = "col3" -> [s EXCEPT !.col3 = rows]

\* this.renderColumn(colId, node?.children || [])
renderOptional(s, colId, node) ==
    IF s.threw THEN s ELSE renderColumn(s, colId, childrenOrEmpty(node))

\* this.renderColumn(colId, node.children || []): throws when node is null
renderRequired(s, colId, node) ==
    IF s.threw THEN s
    ELSE IF node = NoNode THEN [s EXCEPT !.threw = TRUE]
    ELSE renderColumn(s, colId, childrenOrEmpty(node))

makeBreadcrumbSegment(s, label, path) ==
    [label |-> label, path |-> path,
     active |-> (normalize(path) = normalize(s.selectedPath))]

updateBreadcrumb(s, path0) ==
    LET path  == normalize(path0)
        parts == segments(path)
        current(i) == <<"/">> \o join([j \in 1..i |-> parts[j]])
    IN  IF Len(parts) = 0
        THEN [s EXCEPT !.breadcrumb = << makeBreadcrumbSegment(s, Root, Root) >>]
        ELSE [s EXCEPT !.breadcrumb =
                 [i \in 1..Len(parts) |-> makeBreadcrumbSegment(s, parts[i], current(i))]]

\* jumpToPath that ignores its pushHistory option and never pushes
jumpToPath_neverPushes(s, full0, push) ==
    LET full    == normalize(full0)
        parts   == segments(full)
        visible == IF Len(parts) <= 3 THEN parts ELSE sliceLast3(parts)
        parentPath ==
            IF Len(parts) > 3
            THEN <<"/">> \o join(sliceTo(parts, Len(parts) - Len(visible)))
            ELSE Root
        s1 == renderOptional(s, "col1", findNode(s, parentPath))
        s2 == IF Len(visible) >= 2
              THEN renderOptional(s1, "col2",
                                  findNode(s1, <<"/">> \o join(sliceTo(visible, 2))))
              ELSE renderColumn(s1, "col2", <<>>)
        s3 == IF Len(visible) >= 3
              THEN renderOptional(s2, "col3",
                                  findNode(s2, <<"/">> \o join(sliceTo(visible, 3))))
              ELSE renderColumn(s2, "col3", <<>>)
    IN  updateBreadcrumb([s3 EXCEPT !.selectedPath = full], full)

jumpToPath(s, full0, push) ==
    LET full    == normalize(full0)
        parts   == segments(full)
        visible == IF Len(parts) <= 3 THEN parts ELSE sliceLast3(parts)
        parentPath ==
            IF Len(parts) > 3
            THEN <<"/">> \o join(sliceTo(parts, Len(parts) - Len(visible)))
            ELSE Root
        s1 == renderOptional(s, "col1", findNode(s, parentPath))
        s2 == IF Len(visible) >= 2
              THEN renderOptional(s1, "col2",
                                  findNode(s1, <<"/">> \o join(sliceTo(visible, 2))))
              ELSE renderColumn(s1, "col2", <<>>)
        s3 == IF Len(visible) >= 3
              THEN renderOptional(s2, "col3",
                                  findNode(s2, <<"/">> \o join(sliceTo(visible, 3))))
              ELSE renderColumn(s2, "col3", <<>>)
        s4 == updateBreadcrumb([s3 EXCEPT !.selectedPath = full], full)
    IN  IF push THEN pushHistory(s4, full) ELSE s4

\* back with the guard historyIndex < 0: it steps below the first entry,
\* and history[-1] is undefined
back_noFloor(s) ==
    IF s.historyIndex < 0 THEN s
    ELSE LET s1   == [s EXCEPT !.historyIndex = @ - 1]
             prev == IF s1.historyIndex >= 0 THEN s1.history[s1.historyIndex + 1]
                     ELSE Null
         IN  jumpToPath(s1, prev, FALSE)

\* back that, on the first entry, jumps to it again instead of returning
back_rejumps(s) ==
    IF s.historyIndex < 0 THEN s
    ELSE LET s1   == [s EXCEPT !.historyIndex = IF @ > 0 THEN @ - 1 ELSE 0]
             prev == s1.history[s1.historyIndex + 1]
         IN  jumpToPath(s1, prev, FALSE)

back(s) ==
    IF s.historyIndex <= 0 THEN s
    ELSE LET s1   == [s EXCEPT !.historyIndex = @ - 1]
             prev == s1.history[s1.historyIndex + 1]
         IN  jumpToPath(s1, prev, FALSE)

\* the continuation of loadTree after its await, with dirtree's result
loadTree(s, tree) ==
    LET s1 == [s EXCEPT !.fullTree = tree]
        s2 == renderColumn(s1, "col1", s1.fullTree.children)
    IN  updateBreadcrumb(s2, Root)

navigateFromBreadcrumb(s, path0) ==
    LET path        == normalize(path0)
        parent      == orRoot(parentOf(path))
        grandparent == parentOf(parent)
        node            == findNode(s, path)
        parentNode      == findNode(s, parent)
        grandparentNode == findNode(s, grandparent)
        s1 == IF parent = Root
              THEN renderColumn(
                     renderOptional(renderOptional(s, "col1", parentNode), "col2", node),
                     "col3", <<>>)
              ELSE IF node # NoNode
              THEN renderRequired(
                     renderRequired(renderRequired(s, "col1", grandparentNode),
                                    "col2", parentNode),
                     "col3", node)
              ELSE renderColumn(s, "col3", <<>>)
    IN  IF s1.threw THEN s1
        ELSE pushHistory(
               updateBreadcrumb(
                 [s1 EXCEPT !.selectedPath = path], path),
               path)

\* slideLeft that renders the node's own children into col2
slideLeft_ownChildren(s, path0) ==
    LET path        == normalize(path0)
        parent      == orRoot(parentOf(path))
        grandparent == orRoot(parentOf(parent))
        node            == findNode(s, path)
        parentNode      == findNode(s, parent)
    IN  renderRequired(
          renderRequired(renderRequired(s, "col1", parentNode), "col2", node),
          "col3", node)

slideLeft(s, path0) ==
    LET path        == normalize(path0)
        parent      == orRoot(parentOf(path))
        grandparent == orRoot(parentOf(parent))
        node            == findNode(s, path)
        parentNode      == findNode(s, parent)
        grandparentNode == findNode(s, grandparent)
    IN  renderRequired(
          renderRequired(renderRequired(s, "col1", grandparentNode), "col2", parentNode),
          "col3", node)

slideRight(s, path0) ==
    LET path        == normalize(path0)
        parent      == orRoot(parentOf(path))
        grandparent == orRoot(parentOf(parent))
        node            == findNode(s, path)
        parentNode      == findNode(s, parent)
        grandparentNode == findNode(s, grandparent)
    IN  IF parent = Root
        THEN LET t == renderRequired(renderOptional(s, "col1", parentNode), "col2", node)
             IN  IF t.threw THEN t ELSE renderColumn(t, "col3", <<>>)
        ELSE renderOptional(
               renderRequired(renderRequired(s, "col1", grandparentNode),
                              "col2", parentNode),
               "col3", node)

NoSignal == [type |-> "none"]

\* this.dispatchEvent(new CustomEvent(type, {detail}))
dispatchEvent(s, type, detail) ==
    [s EXCEPT !.signal = [type |-> type, detail |-> detail]]

\* handleDoubleClickItem without the return after dispatching open-file
handleDoubleClickItem_fallsThrough(s, colId, item) ==
    LET path == normalize(item.path)
        s0   == IF item.type = "file" THEN dispatchEvent(s, "open-file", path) ELSE s
        node == findNode(s0, path)
        s1 == CASE colId = "col1" -> slideRight(s0, path)
                [] colId = "col2" -> renderColumn(s0, "col3", childrenOrEmpty(node))
                [] colId = "col3" -> slideLeft(s0, path)
    IN  IF node = NoNode THEN s0
        ELSE IF s1.threw THEN s1
        ELSE pushHistory(updateBreadcrumb([s1 EXCEPT !.selectedPath = path], path), path)

\* handleDoubleClickItem that slides left for a row of col2 as well
handleDoubleClickItem_col2Slides(s, colId, item) ==
    LET path == normalize(item.path)
        node == findNode(s, path)
        s1 == CASE colId = "col1" -> slideRight(s, path)
                [] colId = "col2" -> slideLeft(s, path)
                [] colId = "col3" -> slideLeft(s, path)
    IN  IF item.type = "file" THEN dispatchEvent(s, "open-file", path)
        ELSE IF node = NoNode THEN s
        ELSE IF s1.threw THEN s1
        ELSE pushHistory(updateBreadcrumb([s1 EXCEPT !.selectedPath = path], path), path)

\* handleDoubleClickItem that only fills col3 for a row of col3
handleDoubleClickItem_col3Reveals(s, colId, item) ==
    LET path == normalize(item.path)
        node == findNode(s, path)
        s1 == CASE colId = "col1" -> slideRight(s, path)
                [] colId = "col2" -> renderColumn(s, "col3", childrenOrEmpty(node))
                [] colId = "col3" -> renderColumn(s, "col3", childrenOrEmpty(node))
    IN  IF item.type = "file" THEN dispatchEvent(s, "open-file", path)
        ELSE IF node = NoNode THEN s
        ELSE IF s1.threw THEN s1
        ELSE pushHistory(updateBreadcrumb([s1 EXCEPT !.selectedPath = path], path), path)

handleDoubleClickItem(s, colId, item) ==
    LET path == normalize(item.path)
        node == findNode(s, path)
        s1 == CASE colId = "col1" -> slideRight(s, path)
                [] colId = "col2" -> renderColumn(s, "col3", childrenOrEmpty(node))
                [] colId = "col3" -> slideLeft(s, path)
    IN  IF item.type = "file" THEN dispatchEvent(s, "open-file", path)
        ELSE IF node = NoNode THEN s
        ELSE IF s1.threw THEN s1
        ELSE pushHistory(updateBreadcrumb([s1 EXCEPT !.selectedPath = path], path), path)

\* a click listener that also records the row in the history
rowClick_pushes(s, item) == pushHistory([s EXCEPT !.selectedPath = item.path], item.path)

\* the click listener of a row
rowClick(s, item) == [s EXCEPT !.selectedPath = item.path]

\* closeBtn.onclick
closeBtnClick(s) == dispatchEvent([s EXCEPT !.hidden = TRUE], "close", Null)

\* openBtn.onclick
openBtnClick(s) ==
    IF ~truthy(s.selectedPath) THEN s
    ELSE dispatchEvent(s, "opfs-file", s.selectedPath)

\* upBtn.onclick
upBtnClick(s) ==
    LET parent == parentOf(orRoot(s.selectedPath))
    IN  IF truthy(parent) THEN jumpToPath(s, parent, TRUE) ELSE s

\* the keydown listener of pathInput, for the Enter key
pathInputEnter(s, value) ==
    LET v == trim(value)
    IN  IF truthy(v) THEN jumpToPath(s, v, TRUE) ELSE s

\* render() as connectedCallback calls it: a fresh, empty shadow DOM
render(s) == [s EXCEPT !.col1 = <<>>, !.col2 = <<>>, !.col3 = <<>>, !.breadcrumb = <<>>]

-----------------------------------------------------------------------------
(* The state machine *)

\* the texts typed into the path bar
PathInputs ==
    { <<"/">>,
      <<"a", "/", "b", "/">>,
      <<"/", "a", "/", "/">>,
      <<" ", "/", "a", "/", "b", "/", "c", "/", "d">>,
      <<"/", "a", "/", "b", "/", "c">>,
      <<" ">> }

\* the object as a handler finds it
Cur ==
    [hidden |-> hidden, fullTree |-> fullTree, selectedPath |-> selectedPath,
     history |-> history, historyIndex |-> historyIndex,
     col1 |-> col1, col2 |-> col2, col3 |-> col3, breadcrumb |-> breadcrumb,
     signal |-> NoSignal, threw |-> FALSE]

\* the object as the handler op leaves it; n is the column of the row the
\* handler was called on or the number of the load that resumed (else 0),
\* path the handler's path argument (for Up and Open, the selection it read)
Commit(s, op, n, path) ==
    /\ s.historyIndex > historyIndex => historyIndex + 1 < MaxHist
    /\ hidden' = s.hidden
    /\ fullTree' = s.fullTree
    /\ selectedPath' = s.selectedPath
    /\ history' = s.history
    /\ historyIndex' = s.historyIndex
    /\ col1' = s.col1
    /\ col2' = s.col2
    /\ col3' = s.col3
    /\ breadcrumb' = s.breadcrumb
    /\ signal' = s.signal
    /\ last' = [op |-> op, n |-> n, path |-> path, threw |-> s.threw,
                dropped |-> IF s.historyIndex = historyIndex + 1
                            THEN Len(history) - historyIndex - 1 ELSE 0]
    /\ probe' = probe

Column(c) == CASE c = 1 -> col1 [] c = 2 -> col2 [] c = 3 -> col3
ColId(c) == CASE c = 1 -> "col1" [] c = 2 -> "col2" [] c = 3 -> "col3"

\* the user can reach the controls: the DOM is built and not hidden
Interactive == loadSeq > 0 /\ ~hidden

NoProbe == [fn |-> "none"]

\* the object the constructor leaves
InitObject ==
    /\ hidden = FALSE
    /\ loadSeq = 0
    /\ pending = {}
    /\ fullTree = EmptyObj
    /\ selectedPath = Null
    /\ history = <<>>
    /\ historyIndex = -1
    /\ col1 = <<>>
    /\ col2 = <<>>
    /\ col3 = <<>>
    /\ breadcrumb = <<>>
    /\ signal = NoSignal
    /\ last = [op |-> "new", n |-> 0, path |-> Null, threw |-> FALSE, dropped |-> 0]

Init == InitObject /\ probe = NoProbe

\* connectedCallback: render(), then loadTree() up to its await
Connect ==
    /\ loadSeq < MaxLoads
    /\ pending' = pending \cup {loadSeq + 1}
    /\ loadSeq' = loadSeq + 1
    /\ Commit(render(Cur), "connect", 0, Null)

\* dirtree resolves and loadTree resumes
LoadDone ==
    \E l \in pending :
        /\ pending' = pending \ {l}
        /\ Commit(loadTree(Cur, dirtree(DiskAt(l))), "load", l, Root)
        /\ UNCHANGED loadSeq

Click ==
    /\ Interactive
    /\ \E c \in 1..3 : \E i \in DOMAIN Column(c) :
          Commit(rowClick(Cur, Column(c)[i]), "click", c, Column(c)[i].path)
    /\ UNCHANGED <<loadSeq, pending>>

DblClick ==
    /\ Interactive
    /\ \E c \in 1..3 : \E i \in DOMAIN Column(c) :
          Commit(handleDoubleClickItem(Cur, ColId(c), Column(c)[i]),
                 IF Column(c)[i].type = "file" THEN "dblclick-file" ELSE "dblclick-dir",
                 c, Column(c)[i].path)
    /\ UNCHANGED <<loadSeq, pending>>

Crumb ==
    /\ Interactive
    /\ \E i \in DOMAIN breadcrumb :
          Commit(navigateFromBreadcrumb(Cur, breadcrumb[i].path), "crumb", 0,
                 breadcrumb[i].path)
    /\ UNCHANGED <<loadSeq, pending>>

Up ==
    /\ Interactive
    /\ Commit(upBtnClick(Cur), "up", 0, selectedPath)
    /\ UNCHANGED <<loadSeq, pending>>

Back ==
    /\ Interactive
    /\ Commit(back(Cur), "back", 0, Null)
    /\ UNCHANGED <<loadSeq, pending>>

Submit ==
    /\ Interactive
    /\ \E v \in PathInputs : Commit(pathInputEnter(Cur, v), "submit", 0, v)
    /\ UNCHANGED <<loadSeq, pending>>

Open ==
    /\ Interactive
    /\ Commit(openBtnClick(Cur), "open", 0, selectedPath)
    /\ UNCHANGED <<loadSeq, pending>>

Close ==
    /\ Interactive
    /\ Commit(closeBtnClick(Cur), "close", 0, Null)
    /\ UNCHANGED <<loadSeq, pending>>

Next ==
    \/ Connect
    \/ LoadDone
    \/ Click
    \/ DblClick
    \/ Crumb
    \/ Up
    \/ Back
    \/ Submit
    \/ Open
    \/ Close

Spec == Init /\ [][Next]_vars

-----------------------------------------------------------------------------
(* normalize on its own: called on a string, then on its own result *)

object == <<hidden, loadSeq, pending, fullTree, selectedPath, history,
            historyIndex, col1, col2, col3, breadcrumb, signal, last>>

\* null, and every string of "/" and "a" up to MaxLen characters
NormalizeInputs ==
    {Null} \cup UNION { [1..k -> {"/", "a"}] : k \in 0..MaxLen }

InitNormalize ==
    /\ InitObject
    /\ \E x \in NormalizeInputs : probe = [fn |-> "normalize", arg |-> x, out |-> <<>>]

NormalizeCall ==
    /\ probe.fn = "normalize"
    /\ Len(probe.out) < 2
    /\ probe' = [probe EXCEPT !.out =
                    Append(@, normalize(IF @ = <<>> THEN probe.arg ELSE @[Len(@)]))]
    /\ UNCHANGED object

SpecNormalize == InitNormalize /\ [][NormalizeCall]_vars

-----------------------------------------------------------------------------
(* slideRight and slideLeft on their own: in a state the picker has        *)
(* reached, slideRight(d) is called and then slideLeft(d), for a directory *)
(* d of the snapshot                                                       *)

\* the paths of the directories of a snapshot
RECURSIVE DirPaths(_)
DirPaths(node) ==
    IF "children" \notin DOMAIN node THEN {}
    ELSE {node.path} \cup
         UNION { DirPaths(node.children[i]) : i \in 1..Len(node.children) }

\* the columns a slide leaves; the rest of the object is not touched
SlideCommit(s, d, stage, before) ==
    /\ col1' = s.col1
    /\ col2' = s.col2
    /\ col3' = s.col3
    /\ probe' = [fn |-> "slide", d |-> d, stage |-> stage, before |-> before,
                 threw |-> s.threw]
    /\ UNCHANGED <<hidden, loadSeq, pending, fullTree, selectedPath, history,
                   historyIndex, breadcrumb, signal, last>>

SlideRightCall ==
    /\ probe = NoProbe
    /\ \E d \in DirPaths(fullTree) :
          SlideCommit(slideRight(Cur, d), d, "right", col2)

SlideLeftCall ==
    /\ probe.fn = "slide"
    /\ probe.stage = "right"
    /\ ~probe.threw
    /\ SlideCommit(slideLeft(Cur, probe.d), probe.d, "left", probe.before)

\* the steps that change the snapshot or the columns
Navigate ==
    \/ Connect
    \/ LoadDone
    \/ DblClick
    \/ Crumb
    \/ Up
    \/ Back
    \/ Submit

NextSlide ==
    \/ probe = NoProbe /\ Navigate
    \/ SlideRightCall
    \/ SlideLeftCall

SpecSlide == Init /\ [][NextSlide]_vars

-----------------------------------------------------------------------------
(* Navigation to paths that the snapshot does not hold *)

\* path-bar texts naming paths that neither storage holds in full
MissingInputs ==
    { <<"/", "a", "/", "a", "/", "b", "/", "c">>,
      <<"/", "q", "/", "b">>,
      <<"a", "/", "b", "/", "q">> }

SubmitMissing ==
    /\ Interactive
    /\ \E v \in MissingInputs : Commit(pathInputEnter(Cur, v), "submit", 0, v)
    /\ UNCHANGED <<loadSeq, pending>>

NextMissing ==
    \/ Connect
    \/ LoadDone
    \/ SubmitMissing
    \/ DblClick
    \/ Crumb
    \/ Up
    \/ Back

SpecMissing == Init /\ [][NextMissing]_vars

-----------------------------------------------------------------------------
(* What a step is, read from the handler that ran (last') and the state it *)
(* found                                                                   *)

\* history[historyIndex] of the source, on the 1-based sequence
Current(h, i) == h[i + 1]

\* the rows of a directory node, as a column shows them
RowsOf(node) == [i \in 1..Len(node.children) |-> Item(node.children[i])]

\* the path a navigation other than Back ends at, Null when the step is none
NavTarget ==
    CASE last'.op = "crumb" -> normalize(last'.path)
      [] last'.op = "submit" ->
            IF truthy(trim(last'.path)) THEN normalize(trim(last'.path)) ELSE Null
      [] last'.op = "up" ->
            IF truthy(parentOf(orRoot(selectedPath)))
            THEN normalize(parentOf(orRoot(selectedPath))) ELSE Null
      [] last'.op = "dblclick-dir" ->
            IF findNode(Cur, last'.path) # NoNode THEN normalize(last'.path) ELSE Null
      [] OTHER -> Null

\* the path a depth-based jump (path bar, Up, Back) goes to, Null when the
\* step is none
JumpTarget ==
    CASE last'.op \in {"submit", "up"} -> NavTarget
      [] last'.op = "back" ->
            IF historyIndex > 0 THEN normalize(Current(history, historyIndex - 1))
            ELSE Null
      [] OTHER -> Null

\* path names a directory of the snapshot, and every directory from the
\* root down to it has at least one child
RECURSIVE NonEmptyDown(_, _)
NonEmptyDown(node, parts) ==
    /\ node # NoNode
    /\ "children" \in DOMAIN node
    /\ node.children # <<>>
    /\ parts # <<>> => NonEmptyDown(findChild(node, Head(parts)), Tail(parts))

NonEmptyDirPath(path) == NonEmptyDown(fullTree, segments(path))

NonEmptyCols(c1, c2, c3) ==
    (IF c1 # <<>> THEN 1 ELSE 0) + (IF c2 # <<>> THEN 1 ELSE 0)
        + (IF c3 # <<>> THEN 1 ELSE 0)

-----------------------------------------------------------------------------
(* Claims *)

\* C1: in every reachable state either history is empty and historyIndex is
\* -1, or 0 <= historyIndex < Len(history).
C1_HistoryIndexInRange ==
    \/ history = <<>> /\ historyIndex = -1
    \/ 0 <= historyIndex /\ historyIndex < Len(history)

\* Back has moved the index below the tail of a two-entry history
C1_Witness ==
    /\ last.op = "back"
    /\ Len(history) = 2
    /\ historyIndex = 0
    /\ pending = {}

\* C2: a push of p from history h and index i leaves h[0..i] followed by p
\* (the forward entries after i are gone) and index i+1; a Back that follows
\* moves to the entry that was current before the push and keeps the history.
C2_PushTruncates ==
    [][ /\ NavTarget # Null =>
             /\ history' = SubSeq(history, 1, historyIndex + 1) \o <<NavTarget>>
             /\ historyIndex' = historyIndex + 1
        /\ (last'.op = "back" /\ historyIndex > 0) =>
             /\ history' = history
             /\ historyIndex' = historyIndex - 1
             /\ Current(history', historyIndex') = Current(history, historyIndex - 1)
      ]_vars

\* a push after a Back has discarded the forward entry: a, b became a, c
C2_Witness ==
    /\ last.op \in {"crumb", "submit", "up", "dblclick-dir"}
    /\ last.dropped = 1
    /\ Len(history) = 2
    /\ historyIndex = 1
    /\ history[1] # history[2]

\* C3: Back with an empty history or with historyIndex 0 changes neither
\* selectedPath, nor a column, nor history, nor historyIndex.
C3_BackAtBottomIsNoop ==
    [][ (last'.op = "back" /\ historyIndex <= 0) =>
            UNCHANGED <<selectedPath, col1, col2, col3, history, historyIndex>>
      ]_vars

\* Back ran on a one-entry history (index 0) with a selection made since
C3_Witness ==
    /\ last.op = "back"
    /\ Len(history) = 1
    /\ historyIndex = 0
    /\ selectedPath # history[1]
    /\ col2 # <<>>

\* C4: Back with historyIndex > 0 decrements historyIndex by one, keeps the
\* history, sets selectedPath to history[historyIndex] and shows the columns
\* of the depth-based jump to that path.
C4_BackSelectsHistoryEntry ==
    [][ (last'.op = "back" /\ historyIndex > 0) =>
            /\ historyIndex' = historyIndex - 1
            /\ history' = history
            /\ selectedPath' = Current(history', historyIndex')
            /\ LET j == jumpToPath(Cur, Current(history', historyIndex'), FALSE)
               IN  <<col1', col2', col3'>> = <<j.col1, j.col2, j.col3>>
      ]_vars

\* C5: a navigation other than Back (double click on a directory row that
\* resolves, breadcrumb jump, Up with a parent, path-bar submit of non-empty
\* text) ends with its path as the last history entry, historyIndex on it
\* and selectedPath equal to it.
C5_NavigationPushes ==
    [][ NavTarget # Null =>
            /\ history' # <<>>
            /\ history'[Len(history')] = NavTarget
            /\ historyIndex' = Len(history') - 1
            /\ selectedPath' = NavTarget
      ]_vars

\* Up from a clicked row has pushed the parent onto a non-empty history
C5_Witness ==
    /\ last.op = "up"
    /\ truthy(parentOf(orRoot(last.path)))
    /\ Len(history) = 2
    /\ historyIndex = 1
    /\ history[2] = parentOf(last.path)
    /\ selectedPath = history[2]

\* C6: a depth-based jump to a directory of the snapshot with k segments,
\* 1 <= k <= 3, every directory on the path non-empty, leaves exactly k
\* columns non-empty, and column k lists the children of the target.
C6_JumpShowsTargetInColumnK ==
    [][ LET t == JumpTarget
            k == Len(segments(t))
            target == RowsOf(findNode(Cur, t))
        IN  (t # Null /\ k \in 1..3 /\ NonEmptyDirPath(t)) =>
                /\ NonEmptyCols(col1', col2', col3') = k
                /\ CASE k = 1 -> col1' = target
                     [] k = 2 -> col2' = target
                     [] k = 3 -> col3' = target
      ]_vars

\* C7: a depth-based jump to a directory of the snapshot with more than 3
\* segments, every directory on the path non-empty, populates all three
\* columns, and col3 lists the children of the target.
C7_DeepJumpShowsTargetInCol3 ==
    [][ LET t == JumpTarget
        IN  (t # Null /\ Len(segments(t)) > 3 /\ NonEmptyDirPath(t)) =>
                /\ NonEmptyCols(col1', col2', col3') = 3
                /\ col3' = RowsOf(findNode(Cur, t))
      ]_vars

\* C8: a breadcrumb jump to "/" leaves col1 = the root's children, col2 and
\* col3 empty.
C8_CrumbToRoot ==
    [][ (last'.op = "crumb" /\ normalize(last'.path) = Root) =>
            /\ col1' = [i \in 1..Len(childrenOrEmpty(fullTree))
                           |-> Item(childrenOrEmpty(fullTree)[i])]
            /\ col2' = <<>>
            /\ col3' = <<>>
      ]_vars

\* C9: a double click on a file row dispatches open-file with the row's
\* absolute path and changes neither selectedPath, nor a column, nor
\* history, nor historyIndex.
C9_FileDoubleClickOnlyEmits ==
    [][ last'.op = "dblclick-file" =>
            /\ signal' = [type |-> "open-file", detail |-> last'.path]
            /\ startsWithSlash(last'.path)
            /\ UNCHANGED <<selectedPath, col1, col2, col3, history, historyIndex>>
      ]_vars

\* a file row of col3 was double-clicked while another path was selected
C9_Witness ==
    /\ last.op = "dblclick-file"
    /\ last.n = 3
    /\ signal = [type |-> "open-file", detail |-> last.path]
    /\ selectedPath # last.path
    /\ history # <<>>

\* C10: a single click on a row sets selectedPath to the row's path and
\* changes neither a column, nor history, nor historyIndex.
C10_ClickOnlySelects ==
    [][ last'.op = "click" =>
            /\ selectedPath' = last'.path
            /\ UNCHANGED <<col1, col2, col3, history, historyIndex>>
      ]_vars

\* a row was clicked that is not where the history stands
C10_Witness ==
    /\ last.op = "click"
    /\ selectedPath = last.path
    /\ history # <<>>
    /\ Current(history, historyIndex) # selectedPath
    /\ col3 # <<>>

\* C11: when a load completes after a load that was started later has
\* completed, its result is discarded: the snapshot in use stays the one of
\* the most recently started load, and col1 is not rendered again.
C11_StaleLoadDiscarded ==
    [][ (/\ last'.op = "load"
         /\ last'.n < loadSeq
         /\ loadSeq \notin pending) =>
            /\ fullTree' = dirtree(DiskAt(loadSeq))
            /\ col1' = col1
      ]_vars

\* C12: normalize returns a path for every input, normalize("") and
\* normalize(null) are "/", and normalize of a result is that result.
C12_NormalizeIdempotent ==
    /\ probe.fn = "normalize" /\ Len(probe.out) >= 1 =>
          /\ startsWithSlash(probe.out[1])
          /\ probe.arg \in {<<>>, Null} => probe.out[1] = Root
    /\ probe.fn = "normalize" /\ Len(probe.out) = 2 => probe.out[2] = probe.out[1]

\* C13 as claimed: slideRight(d) followed by slideLeft(d) leaves col2 with
\* the content it had before the slideRight.
C13_SlideRoundTripRestoresCol2 ==
    (probe.fn = "slide" /\ probe.stage = "left") => col2 = probe.before

\* C13, amended: slideRight(d) followed by slideLeft(d), for a directory d of
\* the snapshot, leaves col2 listing the children of d's parent (of the root
\* when d is "/"), whatever col2 held before the slideRight.
C13_SlideRoundTripShowsParent ==
    (probe.fn = "slide" /\ probe.stage = "left") =>
        /\ ~probe.threw
        /\ col2 = RowsOf(findNode(Cur, orRoot(parentOf(probe.d))))

\* both slides ran for /a/b while col2 held something else than /a's children
C13_Witness ==
    /\ probe.fn = "slide"
    /\ probe.stage = "left"
    /\ Len(segments(probe.d)) = 2
    /\ probe.before # <<>>
    /\ col2 # probe.before
    /\ col2 # <<>>

\* C14: after a depth-based jump to a directory of the snapshot, every
\* directory on the path non-empty, each non-empty column after the first
\* lists the children of a directory listed in the column before it, and the
\* last non-empty column lists the children of the target.
C14_JumpShowsConsecutiveLevels ==
    [][ LET t == JumpTarget
            ListsChildOf(prev, next) ==
                next # <<>> =>
                    \E i \in 1..Len(prev) :
                        /\ prev[i].type = "directory"
                        /\ next = RowsOf(findNode(Cur, prev[i].path))
            lastLevel == IF col3' # <<>> THEN col3'
                         ELSE IF col2' # <<>> THEN col2' ELSE col1'
        IN  (t # Null /\ NonEmptyDirPath(t)) =>
                /\ ListsChildOf(col1', col2')
                /\ ListsChildOf(col2', col3')
                /\ lastLevel = RowsOf(findNode(Cur, t))
      ]_vars

\* C15: a breadcrumb jump to P leaves the same three columns, the same
\* selectedPath and the same history as a path-bar submit of P from the same
\* state.
C15_CrumbJumpEqualsPathBarJump ==
    [][ last'.op = "crumb" =>
            LET j == pathInputEnter(Cur, last'.path)
            IN  /\ col1' = j.col1
                /\ col2' = j.col2
                /\ col3' = j.col3
                /\ selectedPath' = j.selectedPath
                /\ history' = j.history
                /\ historyIndex' = j.historyIndex
      ]_vars

\* C16: a double click on a directory row of col1 whose path resolves in
\* the snapshot leaves col1 = the children of parentOf(path) when that parent
\* is the root, of parentOf(parentOf(path)) otherwise, col2 = the children of
\* path, and col3 empty.
C16_SlideRightColumns ==
    [][ (/\ last'.op = "dblclick-dir"
         /\ last'.n = 1
         /\ findNode(Cur, last'.path) # NoNode) =>
            LET path   == normalize(last'.path)
                parent == orRoot(parentOf(path))
                source == IF parent = Root THEN parent ELSE orRoot(parentOf(parent))
            IN  /\ col1' = RowsOf(findNode(Cur, source))
                /\ col2' = RowsOf(findNode(Cur, path))
                /\ col3' = <<>>
      ]_vars

\* C17: a double click on a directory row of col2 whose path resolves in
\* the snapshot sets col3 to the children of that directory and leaves col1
\* and col2 as they were.
C17_Col2DoubleClickRevealsCol3 ==
    [][ (/\ last'.op = "dblclick-dir"
         /\ last'.n = 2
         /\ findNode(Cur, last'.path) # NoNode) =>
            /\ col3' = RowsOf(findNode(Cur, last'.path))
            /\ col1' = col1
            /\ col2' = col2
      ]_vars

\* a directory of col2 was double clicked and its children fill col3
C17_Witness ==
    /\ last.op = "dblclick-dir"
    /\ last.n = 2
    /\ findNode(Cur, last.path) # NoNode
    /\ col3 = RowsOf(findNode(Cur, last.path))
    /\ col3 # <<>>
    /\ col1 # col2

\* C18: a double click on a directory row of col3 whose path resolves in
\* the snapshot sets col1 to the children of the path's grandparent, col2 to
\* the children of the path's parent, and col3 to the children of the path.
C18_SlideLeftColumns ==
    [][ (/\ last'.op = "dblclick-dir"
         /\ last'.n = 3
         /\ findNode(Cur, last'.path) # NoNode) =>
            LET path        == normalize(last'.path)
                parent      == orRoot(parentOf(path))
                grandparent == orRoot(parentOf(parent))
            IN  /\ col1' = RowsOf(findNode(Cur, grandparent))
                /\ col2' = RowsOf(findNode(Cur, parent))
                /\ col3' = RowsOf(findNode(Cur, path))
      ]_vars

\* a directory of col3 was double clicked and the window moved one level down
C18_Witness ==
    /\ last.op = "dblclick-dir"
    /\ last.n = 3
    /\ findNode(Cur, last.path) # NoNode
    /\ col3 = RowsOf(findNode(Cur, last.path))
    /\ col3 # <<>>
    /\ col2 = RowsOf(findNode(Cur, parentOf(normalize(last.path))))
    /\ col1 # col2

\* C19: no step raises, and a column whose source node is missing is empty
\* after the step: for a breadcrumb jump to a path that does not resolve,
\* col3 (source: the path), col2 if the parent does not resolve either, and
\* col1 if the grandparent does not; for a path-bar jump, Up or Back to a
\* path of 2 or 3 segments that does not resolve, the column of its last
\* segment, and col2 if the parent of a path of 3 segments does not resolve.
C19_MissingNodeRendersEmpty ==
    [][ /\ ~last'.threw
        /\ last'.op = "crumb" =>
              LET path        == normalize(last'.path)
                  parent      == orRoot(parentOf(path))
                  grandparent == orRoot(parentOf(parent))
              IN  findNode(Cur, path) = NoNode =>
                    /\ col3' = <<>>
                    /\ findNode(Cur, parent) = NoNode => col2' = <<>>
                    /\ findNode(Cur, grandparent) = NoNode => col1' = <<>>
        /\ LET t == JumpTarget
               k == Len(segments(t))
           IN  (t # Null /\ k \in 2..3 /\ findNode(Cur, t) = NoNode) =>
                  /\ k = 2 => col2' = <<>>
                  /\ k = 3 => col3' = <<>>
                  /\ (k = 3 /\ findNode(Cur, parentOf(t)) = NoNode) => col2' = <<>>
      ]_vars

\* C20: whenever a breadcrumb is rendered, a segment is marked active
\* exactly when its cumulative path equals normalize(selectedPath).
C20_ActiveSegmentIsSelection ==
    \A i \in DOMAIN breadcrumb :
        breadcrumb[i].active <=> (breadcrumb[i].path = normalize(selectedPath))

\* C21: whenever history is non-empty and a breadcrumb is rendered,
\* history[historyIndex] names the path the breadcrumb was last built for
\* (the cumulative path of its last segment), compared segment by segment.
C21_HistoryIndexIsDisplayedPath ==
    (history # <<>> /\ breadcrumb # <<>>) =>
        segments(Current(history, historyIndex))
            = segments(breadcrumb[Len(breadcrumb)].path)

====
